---- MODULE Spec2Model ----
(***************************************************************************)
(* Bearing / bearing-rate / range lookup tables of plotseamap:             *)
(*   src/bearing/build_lut.py        builder, log-spaced signed rate edges *)
(*   src/bearing/build_range_lut.py  builder, mirrored configured edges    *)
(*   src/bearing/demo/get_range.py   query P(r | theta, omega)             *)
(*   src/bearing/demo/get_bcr.py     query P(omega | theta)                *)
(*   src/bearing/lookup_bcr.py       query P(omega | theta), library form  *)
(*   src/bearing/lookup_range.py     lookup command: pdf, summary values   *)
(*   src/bearing/demo/evaluate_bcr.py  scores of a trajectory segment      *)
(* and the map pipeline of plotseamap:                                     *)
(*   src/plotseamap/extract.py       MultiWriter, extract_stream           *)
(*   src/plotseamap/cli.py           commands extract, convert, buffer     *)
(*   src/plotseamap/convert.py, buffer.py  the other two commands          *)
(*                                                                         *)
(* Numbers.  Bearings are whole degrees, distances whole metres, rates     *)
(* whole multiples of one rate unit.  A probability is an exact fraction   *)
(* n/d in lowest terms; the float32 rounding of a stored cell is not       *)
(* modelled, so "sums to 1" below means exactly 1 where the code gives 1   *)
(* up to rounding.  The special float results stay distinct values: NaN    *)
(* (0/0), Inf (x/0) and Garbage, the content of an array cell that numpy   *)
(* allocated and never wrote.                                              *)
(*                                                                         *)
(* Arrays are 1-based sequences here and 0-based in the source; every      *)
(* index named after a source variable (az_i, rt_i, az_index, rate_index)  *)
(* keeps its 0-based source value and is shifted by one only at the access.*)
(***************************************************************************)
EXTENDS Integers, Sequences, FiniteSets, Bags, TLC

\* ------------------------------------------------------------------ bounds
\* Rows of the input table.
MaxRows == 2
\* Number of positive log-spaced rate edges of build_lut.py (21 in the source).
NumLogEdges == 2

\* ------------------------------------------------------------------ inputs
\* Columns of the CSV table: in-domain bearings, a negative one and one >= 360.
Bearings == {-10, 100, 350, 370}
\* Below the first edge, on the first edge, around zero, on the last edge.
Rates == {-5, -4, 0, 4}
Dists == {100, 600}
Rows == [bearing : Bearings, bearing_rate : Rates, dist_m : Dists]

\* The "statistics" section of bearing.json.
Configs ==
  { [az_bin_deg |-> 120, r_step_m |-> 500, r_max_m |-> 1000,
     rate_edges |-> <<0, 2, 4>>] }

\* Arguments of the queries.
Thetas == {-10, 100, 110, 350, 370}
Omegas == {-5, -4, -3, 0, 1, 4}

\* ------------------------------------------------------------------ tables
RECURSIVE TablesUpTo(_)
TablesUpTo(n) ==
  IF n = 0 THEN {EmptyBag}
  ELSE LET prev == TablesUpTo(n - 1)
       IN  prev \cup {t (+) SetToBag({r}) : t \in prev, r \in Rows}

\* the tables of at most n rows drawn from the row set R
RECURSIVE TablesOf(_, _)
TablesOf(R, n) ==
  IF n = 0 THEN {EmptyBag}
  ELSE LET fewer == TablesOf(R, n - 1)
       IN  fewer \cup {t (+) SetToBag({r}) : t \in fewer, r \in R}

\* len(df)
NumRows(t) == BagCardinality(t)

RECURSIVE SumCopies(_, _)
SumCopies(S, t) ==
  IF S = {} THEN 0
  ELSE LET r == CHOOSE x \in S : TRUE
       IN  CopiesIn(r, t) + SumCopies(S \ {r}, t)

\* ------------------------------------------------------------------ floats
Zero == [tag |-> "num", n |-> 0, d |-> 1]
One == [tag |-> "num", n |-> 1, d |-> 1]
NaN == [tag |-> "nan", n |-> 0, d |-> 1]
Inf == [tag |-> "inf", n |-> 0, d |-> 1]
Garbage == [tag |-> "garbage", n |-> 0, d |-> 1]

RECURSIVE GCD(_, _)
GCD(a, b) == IF b = 0 THEN a ELSE GCD(b, a % b)

\* n/d, d > 0, in lowest terms
Frac(n, d) == LET g == GCD(n, d) IN [tag |-> "num", n |-> n \div g, d |-> d \div g]

\* numpy true division of a count by a count
TrueDivide(c, s) ==
  IF s # 0 THEN Frac(c, s)
  ELSE IF c = 0 THEN NaN ELSE Inf

\* float addition
FAdd(a, b) ==
  IF a.tag = "nan" \/ b.tag = "nan" THEN NaN
  ELSE IF a.tag = "garbage" \/ b.tag = "garbage" THEN Garbage
  ELSE IF a.tag = "inf" \/ b.tag = "inf" THEN Inf
  ELSE Frac(a.n * b.d + b.n * a.d, a.d * b.d)

\* ndarray.sum() of a float vector
RECURSIVE FSum(_)
FSum(v) == IF v = <<>> THEN Zero ELSE FAdd(Head(v), FSum(Tail(v)))

\* ndarray.sum() of an int vector
RECURSIVE ISum(_)
ISum(v) == IF v = <<>> THEN 0 ELSE Head(v) + ISum(Tail(v))

\* np.isnan
IsNaN(x) == x.tag = "nan"

\* x == 0 on floats (NaN == 0 is false)
IsZero(x) == x.tag = "num" /\ x.n = 0

\* ------------------------------------------------------------------ edges
\* [-e for e in reversed(s)]  /  -pos_edges[::-1]
NegReversed(s) == [i \in 1..Len(s) |-> -s[Len(s) + 1 - i]]

\* np.logspace(-5, 1, num=21): a geometric sequence of positive magnitudes,
\* here in units of half its smallest value and with ratio 2.
pos_edges == [i \in 1..NumLogEdges |-> 2 ^ i]

\* build_lut.py: rate_edges = np.concatenate([neg_edges, pos_edges])
LutRateEdges == NegReversed(pos_edges) \o pos_edges

\* build_range_lut.py: neg_edges + POS_RATE_EDGES
RangeLutRateEdges(POS_RATE_EDGES) ==
  NegReversed(Tail(POS_RATE_EDGES)) \o POS_RATE_EDGES

\* ------------------------------------------------------------------ binning
\* df["bearing_bin"] = (df["bearing"] // AZ_BIN_DEG) * AZ_BIN_DEG
\* (// is floor division, as \div is)
BearingBin(bearing, AZ_BIN_DEG) == (bearing \div AZ_BIN_DEG) * AZ_BIN_DEG

CutClamped(x, rate_edges) ==
  IF x < rate_edges[1] THEN [isna |-> FALSE, label |-> rate_edges[1]]
  ELSE [isna |-> FALSE,
        label |-> rate_edges[CHOOSE j \in 1..(Len(rate_edges) - 1) :
                    /\ rate_edges[j] <= x
                    /\ (x < rate_edges[j + 1] \/ j = Len(rate_edges) - 1)]]

CutRightClosed(x, rate_edges) ==
  LET hit == {j \in 1..(Len(rate_edges) - 1) :
                rate_edges[j] < x /\ x <= rate_edges[j + 1]}
  IN  IF hit = {} THEN [isna |-> TRUE, label |-> 0]
      ELSE [isna |-> FALSE, label |-> rate_edges[CHOOSE j \in hit : TRUE]]

\* pd.cut(x, bins=rate_edges, right=False, labels=rate_edges[:-1]).astype(float)
\* the label of the half-open interval [edge, next edge) holding x, else NaN
Cut(x, rate_edges) ==
  LET hit == {j \in 1..(Len(rate_edges) - 1) :
                rate_edges[j] <= x /\ x < rate_edges[j + 1]}
  IN  IF hit = {} THEN [isna |-> TRUE, label |-> 0]
      ELSE [isna |-> FALSE, label |-> rate_edges[CHOOSE j \in hit : TRUE]]

CutRaisesDescendingOnly(rate_edges) ==
  \E i \in 1..(Len(rate_edges) - 1) : rate_edges[i] > rate_edges[i + 1]

\* pd.cut raises ValueError("bins must increase monotonically.") on a
\* descending step and ValueError("Bin edges must be unique") on a repeated
\* edge (duplicates="raise", more than two edges)
CutRaises(rate_edges) ==
  \/ \E i \in 1..(Len(rate_edges) - 1) : rate_edges[i] > rate_edges[i + 1]
  \/ /\ Len(rate_edges) # 2
     /\ \E i, j \in 1..Len(rate_edges) : i # j /\ rate_edges[i] = rate_edges[j]

\* one center per whole step below R_MAX_M
RangeVecFloor(c) ==
  [k \in 1..(c.r_max_m \div c.r_step_m) |->
     (k - 1) * c.r_step_m + c.r_step_m \div 2]

\* range_vec = np.arange(0, R_MAX_M, R_STEP_M) + R_STEP_M / 2  (R_STEP_M even)
RangeVec(c) ==
  [k \in 1..((c.r_max_m + c.r_step_m - 1) \div c.r_step_m) |->
     (k - 1) * c.r_step_m + c.r_step_m \div 2]

DistBinNoClip(dist, c) == dist \div c.r_step_m

\* (df[dist_col] // R_STEP_M).clip(upper=len(range_vec) - 1).astype(int)
DistBin(dist, c) ==
  LET q == dist \div c.r_step_m
      top == Len(RangeVec(c)) - 1
  IN  IF q > top THEN top ELSE q

\* rate_to_idx = {edge: idx for idx, edge in enumerate(rate_edges[:-1])}
RateToIdx(rate_edges, label) ==
  (CHOOSE j \in 1..(Len(rate_edges) - 1) : rate_edges[j] = label) - 1

\* ------------------------------------------------------------------ groupby
\* the key columns of one row
RowKey(r, c, rate_edges) ==
  <<BearingBin(r.bearing, c.az_bin_deg),
    Cut(r.bearing_rate, rate_edges),
    DistBin(r.dist_m, c)>>

\* df.groupby([...]) keys: one per distinct key triple; rows with a NaN key
\* are left out (pandas dropna=True)
GroupKeys(t, c, rate_edges) ==
  {<<RowKey(r, c, rate_edges)[1], RowKey(r, c, rate_edges)[2].label,
     RowKey(r, c, rate_edges)[3]>> :
     r \in {x \in BagToSet(t) : ~RowKey(x, c, rate_edges)[2].isna}}

GroupSizeDedup(key, t, c, rate_edges) == 1

\* .size(): the number of rows of the group
GroupSize(key, t, c, rate_edges) ==
  SumCopies({r \in BagToSet(t) :
               /\ ~RowKey(r, c, rate_edges)[2].isna
               /\ RowKey(r, c, rate_edges)[1] = key[1]
               /\ RowKey(r, c, rate_edges)[2].label = key[2]
               /\ RowKey(r, c, rate_edges)[3] = key[3]}, t)

\* groupby sorts its keys: lexicographic order of the triples
KeyLess(a, b) ==
  \/ a[1] < b[1]
  \/ a[1] = b[1] /\ a[2] < b[2]
  \/ a[1] = b[1] /\ a[2] = b[2] /\ a[3] < b[3]

FirstKey(keys) == CHOOSE a \in keys : \A b \in keys \ {a} : KeyLess(a, b)

\* ------------------------------------------------------------------ ndarray
\* np.zeros((n_az, n_rate, n_r), dtype=int)
ZerosCube(n_az, n_rate, n_r) ==
  [i \in 1..n_az |-> [j \in 1..n_rate |-> [k \in 1..n_r |-> 0]]]

\* numpy accepts an index i on an axis of length n when -n <= i < n
IndexOk(i, n) == -n <= i /\ i < n
\* and counts a negative one from the end
NpIndex(i, n) == IF i < 0 THEN i + n ELSE i

\* The loop over group.size().items(): counts[az_i, rt_i, int(d_bin)] = cnt.
\* raised: an IndexError left the loop (and main).
RECURSIVE FillCounts(_, _, _, _, _)
FillCounts(keys, counts, t, c, rate_edges) ==
  IF keys = {} THEN [raised |-> FALSE, counts |-> counts]
  ELSE
    LET key == FirstKey(keys)
        az_i == key[1] \div c.az_bin_deg
        rt_i == RateToIdx(rate_edges, key[2])
        d_bin == key[3]
        n_az == Len(counts)
        n_r == Len(counts[1][1])
    IN  IF ~IndexOk(az_i, n_az) \/ ~IndexOk(d_bin, n_r)
        THEN [raised |-> TRUE, counts |-> counts]
        ELSE FillCounts(
               keys \ {key},
               [counts EXCEPT ![NpIndex(az_i, n_az) + 1][rt_i + 1][NpIndex(d_bin, n_r) + 1] =
                  GroupSize(key, t, c, rate_edges)],
               t, c, rate_edges)

\* steps 5-8 of build_lut.py and 4-7 of build_range_lut.py
Histogram(t, c, rate_edges) ==
  FillCounts(GroupKeys(t, c, rate_edges),
             ZerosCube(360 \div c.az_bin_deg, Len(rate_edges) - 1, Len(RangeVec(c))),
             t, c, rate_edges)

\* ------------------------------------------------------------------ normalise
\* np.divide(counts, sums, where=sums != 0) along the last axis of a cube:
\* a cell of a row with a non-zero sum gets count / sum, a cell of a row
\* with sum zero is not written and keeps what the output array held (fill).
DivideWhere3(counts, fill) ==
  [i \in 1..Len(counts) |->
    [j \in 1..Len(counts[i]) |->
      [k \in 1..Len(counts[i][j]) |->
        IF ISum(counts[i][j]) # 0
        THEN TrueDivide(counts[i][j][k], ISum(counts[i][j]))
        ELSE fill]]]

\* counts.sum(axis=2)
SumAxis2(counts) ==
  [i \in 1..Len(counts) |-> [j \in 1..Len(counts[i]) |-> ISum(counts[i][j])]]

\* np.divide(counts_rate, sums_rate, where=sums_rate != 0), rows of a matrix
DivideWhere2(counts_rate, fill) ==
  [i \in 1..Len(counts_rate) |->
    [j \in 1..Len(counts_rate[i]) |->
      IF ISum(counts_rate[i]) # 0
      THEN TrueDivide(counts_rate[i][j], ISum(counts_rate[i]))
      ELSE fill]]

\* counts_rate.astype("float64") / rate_sums: plain division, 0/0 is NaN
DivideRows(counts_rate) ==
  [i \in 1..Len(counts_rate) |->
    [j \in 1..Len(counts_rate[i]) |->
      TrueDivide(counts_rate[i][j], ISum(counts_rate[i]))]]

\* prob_rate[np.isnan(prob_rate)] = 0.0
NanToZero(m) ==
  [i \in 1..Len(m) |-> [j \in 1..Len(m[i]) |-> IF IsNaN(m[i][j]) THEN Zero ELSE m[i][j]]]

\* What an array cell that np.divide allocated (out=None) and did not write
\* can hold: zero bits, a NaN bit pattern, or any other float.
Uninitialized == {Zero, NaN, Garbage}

\* build_range_lut.py step 8: raw = np.zeros_like(hist); np.divide(..., out=raw, where=sums != 0)
RangeLutProbCube(hist) == DivideWhere3(hist, Zero)

RangeLutProbRateUnfiltered(hist) == DivideRows(SumAxis2(hist))

\* build_range_lut.py step 9
RangeLutProbRate(hist) == NanToZero(DivideRows(SumAxis2(hist)))

\* build_lut.py step 9: probs = np.divide(counts, sums_r, where=sums_r != 0)
LutProbCube(counts, uninit) == DivideWhere3(counts, uninit)

\* build_lut.py step 10
LutProbRate(counts, uninit) == NanToZero(DivideWhere2(SumAxis2(counts), uninit))

\* ------------------------------------------------------------------ state
VARIABLES
  cfg,       \* the loaded bearing.json
  table,     \* the rows of the CSV at cfg["output"]["with_distance_csv"]
  pc,        \* "start", "saving" (output file open), "saved" (pickle written)
             \* or "aborted" (main raised)
  built_by,  \* the builder that ran
  lut,       \* the pickled dict at statistics.output
  res,       \* the last query: its arguments, its index locals, what it returned
  log,       \* the data-dependent values the build wrote to its log
  callers,   \* per caller of the query functions: the call it is in
  wr,        \* the output file handle of a build: "closed", "opened", "dumping"
  prev,      \* the model the output file held before the build opened it
  loaded,    \* what a reader's load_lut returned
  held,      \* the write a caller made into a vector a query returned to it
  mw,        \* a MultiWriter of plotseamap: its fields, its sink, the add calls
  shell      \* the plotseamap command line: config keys, files, commands run

vars == <<cfg, table, pc, built_by, lut, res, log, callers, wr, prev, loaded,
          held, mw, shell>>

\* the variables of the writing caller and of plotseamap
others == <<held, mw, shell>>

\* the variables of the callers and of the reader of the output file, and the
\* variables above
clients == <<callers, wr, prev, loaded, others>>

NoLut ==
  [params |-> [az_bin_deg |-> 0, rate_edges |-> <<>>, range_vec |-> <<>>],
   counts_cube |-> <<>>, prob_cube |-> <<>>, prob_rate_cube |-> <<>>]

\* (None, None, None) of get_range_distribution
NoneOut ==
  [isnone |-> TRUE, range_vec |-> <<>>, intervals |-> <<>>, pdf |-> <<>>, counts |-> <<>>]

NoRes ==
  [fn |-> "none", theta |-> 0, omega |-> 0, az_index |-> 0, rate_index |-> 0,
   out |-> NoneOut]

Callers == {"a", "b"}

NoCall ==
  [at |-> "idle", fn |-> "none", theta |-> 0, omega |-> 0,
   az_index |-> 0, rate_index |-> 0, out |-> NoneOut]

NotLoaded == [kind |-> "none", lut |-> NoLut, wr |-> "closed", old |-> NoLut, new |-> NoLut]

\* no caller wrote into a returned vector
NotHeld == [wrote |-> FALSE, what |-> "none", k |-> 0, model |-> NoLut]

\* no MultiWriter was constructed
NoWriter ==
  [state |-> "none", batch_size |-> 0, batch |-> <<>>, written |-> 0,
   sink |-> <<>>, calls |-> <<>>]

\* no plotseamap command ran
NoShell == [keys |-> {}, files |-> {}, runs |-> <<>>]

\* before any script ran: no output file, nothing logged, nobody called
Fresh ==
  /\ pc = "start"
  /\ built_by = "none"
  /\ lut = NoLut
  /\ res = NoRes
  /\ log = <<>>
  /\ callers = [c \in Callers |-> NoCall]
  /\ wr = "closed"
  /\ prev = NoLut
  /\ loaded = NotLoaded
  /\ held = NotHeld
  /\ mw = NoWriter
  /\ shell = NoShell

Init ==
  /\ cfg \in Configs
  /\ table \in TablesUpTo(MaxRows)
  /\ Fresh

\* ------------------------------------------------------------------ builders
\* logger.info(f"→ {len(df):,} Zeilen geladen")
LogLoaded(t) == <<[msg |-> "rows_loaded", value |-> NumRows(t)]>>

\* build_range_lut.py: expected_neg = [-e for e in reversed(rate_edges[len(neg_edges):])]
ExpectedNeg(neg_edges, rate_edges) ==
  NegReversed(SubSeq(rate_edges, Len(neg_edges) + 1, Len(rate_edges)))

\* build_range_lut.py symmetry check: the warning when neg_edges differs from
\* expected_neg, the confirmation otherwise
LogSymmetry(POS_RATE_EDGES) ==
  LET neg_edges == NegReversed(Tail(POS_RATE_EDGES))
      rate_edges == neg_edges \o POS_RATE_EDGES
  IN  IF neg_edges # ExpectedNeg(neg_edges, rate_edges)
      THEN <<[msg |-> "edges_not_symmetric", value |-> Len(rate_edges)]>>
      ELSE <<[msg |-> "edges_symmetric", value |-> Len(rate_edges)]>>

\* logger.info(f"... 3D-Histogramm mit Form {n_az}×{n_rate}×{n_r}")
LogShape(c, rate_edges) ==
  <<[msg |-> "n_az", value |-> 360 \div c.az_bin_deg],
    [msg |-> "n_rate", value |-> Len(rate_edges) - 1],
    [msg |-> "n_r", value |-> Len(RangeVec(c))]>>

\* the dict build_lut.py pickles
LutModel(c, counts, u1, u2) ==
  [params |-> [az_bin_deg |-> c.az_bin_deg,
               rate_edges |-> LutRateEdges,
               range_vec |-> RangeVec(c)],
   counts_cube |-> counts,
   prob_cube |-> LutProbCube(counts, u1),
   prob_rate_cube |-> LutProbRate(counts, u2)]

\* the dict build_range_lut.py pickles
RangeLutModel(c, rate_edges, hist) ==
  [params |-> [az_bin_deg |-> c.az_bin_deg,
               rate_edges |-> rate_edges,
               range_vec |-> RangeVec(c)],
   counts_cube |-> hist,
   prob_cube |-> RangeLutProbCube(hist),
   prob_rate_cube |-> RangeLutProbRate(hist)]

\* build_lut.py main()
BuildLut ==
  /\ pc = "start"
  /\ built_by' = "build_lut"
  /\ IF CutRaises(LutRateEdges)
     THEN pc' = "aborted" /\ lut' = lut /\ log' = LogLoaded(table)
     ELSE LET h == Histogram(table, cfg, LutRateEdges)
          IN  /\ log' = LogLoaded(table) \o LogShape(cfg, LutRateEdges)
              /\ IF h.raised
                 THEN pc' = "aborted" /\ lut' = lut
                 ELSE /\ pc' = "saved"
                      /\ \E u1 \in Uninitialized, u2 \in Uninitialized :
                           lut' = LutModel(cfg, h.counts, u1, u2)
  /\ UNCHANGED <<cfg, table, res>>
  /\ UNCHANGED clients

\* build_range_lut.py main()
BuildRangeLut ==
  /\ pc = "start"
  /\ built_by' = "build_range_lut"
  /\ LET rate_edges == RangeLutRateEdges(cfg.rate_edges)
     IN  IF CutRaises(rate_edges)
         THEN /\ pc' = "aborted"
              /\ lut' = lut
              /\ log' = LogLoaded(table) \o LogSymmetry(cfg.rate_edges)
         ELSE LET h == Histogram(table, cfg, rate_edges)
              IN  /\ log' = LogLoaded(table) \o LogSymmetry(cfg.rate_edges)
                             \o LogShape(cfg, rate_edges)
                  /\ IF h.raised
                     THEN pc' = "aborted" /\ lut' = lut
                     ELSE /\ pc' = "saved"
                          /\ lut' = RangeLutModel(cfg, rate_edges, h.counts)
  /\ UNCHANGED <<cfg, table, res>>
  /\ UNCHANGED clients

\* ------------------------------------------------------------------ queries
AzIndexNoWrap(theta, az_bin_deg) == theta \div az_bin_deg

AzIndexRem(theta, az_bin_deg) ==
  (IF theta < 0 THEN -((-theta) % 360) ELSE theta % 360) \div az_bin_deg

\* int((theta % 360) // az_bin_deg)
AzIndex(theta, az_bin_deg) == (theta % 360) \div az_bin_deg

SearchSortedLeft(edges, x) == Cardinality({i \in 1..Len(edges) : edges[i] < x})

\* np.searchsorted(edges, x, side="right") on ascending edges
SearchSortedRight(edges, x) == Cardinality({i \in 1..Len(edges) : edges[i] <= x})

\* demo/get_range.py get_range_distribution from the validity check on:
\* the check of both indices, the two slices, the test for an empty row
RangeSlice(l, az_index, rate_index) ==
  IF \/ az_index < 0 \/ az_index >= Len(l.prob_cube)
     \/ rate_index < 0 \/ rate_index >= Len(l.prob_cube[1])
  THEN NoneOut
  ELSE LET pdf == l.prob_cube[az_index + 1][rate_index + 1]
           counts == l.counts_cube[az_index + 1][rate_index + 1]
       IN  IF IsZero(FSum(pdf)) THEN NoneOut
           ELSE [isnone |-> FALSE, range_vec |-> l.params.range_vec,
                 intervals |-> <<>>, pdf |-> pdf, counts |-> counts]

\* demo/get_range.py get_range_distribution
GetRangeDistribution(theta, omega, l) ==
  RangeSlice(l, AzIndex(theta, l.params.az_bin_deg),
             SearchSortedRight(l.params.rate_edges, omega) - 1)

\* the (low, high) pairs of consecutive edges
Intervals(edges) ==
  IF Len(edges) = 0 THEN <<>>
  ELSE [i \in 1..(Len(edges) - 1) |-> <<edges[i], edges[i + 1]>>]

\* demo/get_bcr.py get_bcr_distribution from the intervals on
BcrSlice(l, az_index) ==
  LET intervals == Intervals(l.params.rate_edges)
  IN  IF az_index < 0 \/ az_index >= Len(l.prob_rate_cube)
      THEN [isnone |-> TRUE, range_vec |-> <<>>, intervals |-> intervals,
            pdf |-> <<>>, counts |-> <<>>]
      ELSE [isnone |-> FALSE, range_vec |-> <<>>, intervals |-> intervals,
            pdf |-> l.prob_rate_cube[az_index + 1],
            counts |-> SumAxis2(l.counts_cube)[az_index + 1]]

\* demo/get_bcr.py get_bcr_distribution
GetBcrDistribution(bearing, l) == BcrSlice(l, AzIndex(bearing, l.params.az_bin_deg))

\* lookup_bcr.py get_bcr_distribution
LookupBcrDistribution(theta, l) ==
  LET intervals == Intervals(l.params.rate_edges)
      be_i == AzIndex(theta, l.params.az_bin_deg)
  IN  IF be_i < 0 \/ be_i >= Len(l.prob_rate_cube)
      THEN [isnone |-> TRUE, range_vec |-> <<>>, intervals |-> intervals,
            pdf |-> <<>>, counts |-> <<>>]
      ELSE [isnone |-> FALSE, range_vec |-> <<>>, intervals |-> intervals,
            pdf |-> l.prob_rate_cube[be_i + 1],
            counts |-> SumAxis2(l.counts_cube)[be_i + 1]]

\* demo/get_range.py run as a script: load the pickle, one query
QueryRange ==
  /\ pc = "saved"
  /\ res.fn = "none"
  /\ \E theta \in Thetas, omega \in Omegas :
       res' = [fn |-> "get_range_distribution", theta |-> theta, omega |-> omega,
               az_index |-> AzIndex(theta, lut.params.az_bin_deg),
               rate_index |-> SearchSortedRight(lut.params.rate_edges, omega) - 1,
               out |-> GetRangeDistribution(theta, omega, lut)]
  /\ UNCHANGED <<cfg, table, pc, built_by, lut, log>>
  /\ UNCHANGED clients

\* demo/get_bcr.py run as a script: load the pickle, one query
QueryBcr ==
  /\ pc = "saved"
  /\ res.fn = "none"
  /\ \E theta \in Thetas :
       res' = [fn |-> "get_bcr_distribution", theta |-> theta, omega |-> 0,
               az_index |-> AzIndex(theta, lut.params.az_bin_deg),
               rate_index |-> 0,
               out |-> GetBcrDistribution(theta, lut)]
  /\ UNCHANGED <<cfg, table, pc, built_by, lut, log>>
  /\ UNCHANGED clients

\* lookup_bcr.py run as a script: load the pickle, one query
QueryLookupBcr ==
  /\ pc = "saved"
  /\ res.fn = "none"
  /\ \E theta \in Thetas :
       res' = [fn |-> "lookup_bcr", theta |-> theta, omega |-> 0,
               az_index |-> AzIndex(theta, lut.params.az_bin_deg),
               rate_index |-> 0,
               out |-> LookupBcrDistribution(theta, lut)]
  /\ UNCHANGED <<cfg, table, pc, built_by, lut, log>>
  /\ UNCHANGED clients

Next ==
  \/ BuildLut
  \/ BuildRangeLut
  \/ QueryRange
  \/ QueryBcr
  \/ QueryLookupBcr

Spec == Init /\ [][Next]_vars

\* ------------------------------------------------------------------ lookup_range.py
\* float arithmetic on numbers; anything else gives NaN
FromInt(i) == Frac(i, 1)

FMul(a, b) ==
  IF a.tag # "num" \/ b.tag # "num" THEN NaN ELSE Frac(a.n * b.n, a.d * b.d)

FSub(a, b) ==
  IF a.tag # "num" \/ b.tag # "num" THEN NaN ELSE Frac(a.n * b.d - b.n * a.d, a.d * b.d)

FDiv(a, b) ==
  IF a.tag # "num" \/ b.tag # "num" THEN NaN
  ELSE IF b.n = 0 THEN (IF a.n = 0 THEN NaN ELSE Inf)
  ELSE IF b.n < 0 THEN Frac(-(a.n * b.d), a.d * (-b.n))
  ELSE Frac(a.n * b.d, a.d * b.n)

\* a < b and a <= b on floats (false when one side is no number)
FLess(a, b) == a.tag = "num" /\ b.tag = "num" /\ a.n * b.d < b.n * a.d
FLeq(a, b) == a.tag = "num" /\ b.tag = "num" /\ a.n * b.d <= b.n * a.d

\* an ndarray holds the values of its cells: the sequence is computed once
Array(v) == SubSeq(v, 1, Len(v))

\* pdf.cumsum()
Cumsum(v) == Array([k \in 1..Len(v) |-> FSum(SubSeq(v, 1, k))])

InterpFalling(x, xp, fp) ==
  LET n == Len(xp)
      j == Cardinality({i \in 1..n : FLeq(xp[i], x)})
  IN  IF FLess(xp[n], x) THEN fp[n]
      ELSE IF FLess(x, xp[1]) THEN fp[1]
      ELSE IF j = n \/ xp[j] = x THEN fp[j]
      ELSE FSub(fp[j], FMul(FDiv(FSub(fp[j + 1], fp[j]), FSub(xp[j + 1], xp[j])),
                            FSub(x, xp[j])))

\* np.interp(x, xp, fp) for a scalar x: fp[-1] right of xp, fp[0] left of it,
\* else with j the last index whose xp[j] <= x (the binary search of numpy)
\* fp[j] when j is the last index or xp[j] == x, and else
\* slope * (x - xp[j]) + fp[j], slope = (fp[j+1] - fp[j]) / (xp[j+1] - xp[j])
Interp(x, xp, fp) ==
  LET n == Len(xp)
      j == Cardinality({i \in 1..n : FLeq(xp[i], x)})
  IN  IF FLess(xp[n], x) THEN fp[n]
      ELSE IF FLess(x, xp[1]) THEN fp[1]
      ELSE IF j = n \/ xp[j] = x THEN fp[j]
      ELSE FAdd(FMul(FDiv(FSub(fp[j + 1], fp[j]), FSub(xp[j + 1], xp[j])),
                     FSub(x, xp[j])),
                fp[j])

\* np.interp(q, pdf.cumsum(), range_vec)
Quantile(q, pdf, range_vec) ==
  Interp(q, Cumsum(pdf), Array([k \in 1..Len(range_vec) |-> FromInt(range_vec[k])]))

\* (range_vec * pdf).sum()
Expectation(range_vec, pdf) ==
  FSum([k \in 1..Len(pdf) |-> FMul(FromInt(range_vec[k]), pdf[k])])

\* np.argsort(pdf), default kind: the 0-based indices in ascending order of
\* mass.  The default sort is not stable, so equal masses come in any order:
\* all the orders a build of numpy can produce.
RECURSIVE ArgSorts(_, _)
ArgSorts(S, pdf) ==
  IF S = {} THEN {<<>>}
  ELSE LET least == {i \in S : \A m \in S : FLeq(pdf[i + 1], pdf[m + 1])}
       IN  UNION {{<<i>> \o rest : rest \in ArgSorts(S \ {i}, pdf)} : i \in least}

\* the 5 of np.argsort(pdf)[-5:]
TopK == 5

\* order[-TopK:][::-1]
LastReversed(order) ==
  LET n == Len(order)
      m == IF n < TopK THEN n ELSE TopK
  IN  [i \in 1..m |-> order[n + 1 - i]]

LookupRangePdfNoEmptyTest(theta, omega, l) ==
  LET be_i == AzIndex(theta, l.params.az_bin_deg)
      abs_omega == IF omega < 0 THEN -omega ELSE omega
      ra_i == SearchSortedRight(l.params.rate_edges, abs_omega) - 1
  IN  IF ra_i < 0 \/ ra_i >= Len(l.prob_cube[1])
      THEN [isnone |-> TRUE, range_vec |-> <<>>, pdf |-> <<>>]
      ELSE [isnone |-> FALSE, range_vec |-> l.params.range_vec,
            pdf |-> l.prob_cube[be_i + 1][ra_i + 1]]

\* lookup_range.py lookup_range_pdf
LookupRangePdf(theta, omega, l) ==
  LET be_i == AzIndex(theta, l.params.az_bin_deg)
      abs_omega == IF omega < 0 THEN -omega ELSE omega
      ra_i == SearchSortedRight(l.params.rate_edges, abs_omega) - 1
  IN  IF ra_i < 0 \/ ra_i >= Len(l.prob_cube[1])
      THEN [isnone |-> TRUE, range_vec |-> <<>>, pdf |-> <<>>]
      ELSE LET pdf == l.prob_cube[be_i + 1][ra_i + 1]
           IN  IF IsZero(FSum(pdf))
               THEN [isnone |-> TRUE, range_vec |-> <<>>, pdf |-> <<>>]
               ELSE [isnone |-> FALSE, range_vec |-> l.params.range_vec, pdf |-> pdf]

\* Arguments and inputs of the lookup command: six range bins, up to
\* MaxCliRows records in one (theta, omega) row.
MaxCliRows == 3
CliRows == [bearing : {100}, bearing_rate : {0}, dist_m : {0, 600, 1100, 1600, 2100, 2600}]
CliConfigs ==
  { [az_bin_deg |-> 120, r_step_m |-> 500, r_max_m |-> 3000, rate_edges |-> <<0, 2, 4>>] }
CliThetas == {-10, 100}
CliOmegas == {-1, 0, 5}

\* lookup_range.py main(): the lookup, then either the error line and the
\* return or the expectation, the 10% and 90% quantiles and the top 5
LookupRangeMain ==
  /\ pc = "saved"
  /\ res.fn = "none"
  /\ \E theta \in CliThetas, omega \in CliOmegas :
       LET got == LookupRangePdf(theta, omega, lut)
           be_i == AzIndex(theta, lut.params.az_bin_deg)
           ra_i == SearchSortedRight(lut.params.rate_edges,
                                     IF omega < 0 THEN -omega ELSE omega) - 1
       IN  IF got.isnone
           THEN res' = [fn |-> "lookup_range", theta |-> theta, omega |-> omega,
                        az_index |-> be_i, rate_index |-> ra_i,
                        out |-> [error |-> TRUE, range_vec |-> <<>>, pdf |-> <<>>,
                                 summary |-> <<>>]]
           ELSE \E order \in ArgSorts(0..(Len(got.pdf) - 1), got.pdf) :
                  res' = [fn |-> "lookup_range", theta |-> theta, omega |-> omega,
                          az_index |-> be_i, rate_index |-> ra_i,
                          out |-> [error |-> FALSE, range_vec |-> got.range_vec,
                                   pdf |-> got.pdf,
                                   summary |->
                                     <<[exp_r |-> Expectation(got.range_vec, got.pdf),
                                        q10 |-> Quantile(Frac(1, 10), got.pdf, got.range_vec),
                                        q90 |-> Quantile(Frac(9, 10), got.pdf, got.range_vec),
                                        top5 |-> LastReversed(order)]>>]]
  /\ UNCHANGED <<cfg, table, pc, built_by, lut, log>>
  /\ UNCHANGED clients

InitCli ==
  /\ cfg \in CliConfigs
  /\ table \in TablesOf(CliRows, MaxCliRows)
  /\ Fresh

NextCli ==
  \/ BuildRangeLut
  \/ LookupRangeMain

SpecCli == InitCli /\ [][NextCli]_vars

\* ------------------------------------------------------------------ evaluate_bcr.py
\* float division of array cells: 0/0 is NaN, x/0 is Inf
FloatDivide(a, b) ==
  IF a.tag = "nan" \/ b.tag = "nan" THEN NaN
  ELSE IF a.tag = "garbage" \/ b.tag = "garbage" THEN Garbage
  ELSE FDiv(a, b)

\* a float that is a finite number whose value is not followed
Finite == [tag |-> "finite", n |-> 0, d |-> 1]
\* a float that is a number greater than zero whose value is not followed
Positive == [tag |-> "positive", n |-> 0, d |-> 1]

\* rate_i = np.searchsorted(edges, abs(omega), side="right") - 1
EvalRateIndex(omega, edges) ==
  SearchSortedRight(edges, IF omega < 0 THEN -omega ELSE omega) - 1

\* v / v.sum() of a float vector
Normalised(v) ==
  LET total == FSum(v)
  IN  Array([j \in 1..Len(v) |-> FloatDivide(v[j], total)])

\* p_vec = prob_rate_cube[az_i]; p_vec = p_vec / p_vec.sum()
PVec(theta, l) ==
  Normalised(l.prob_rate_cube[AzIndex(theta, l.params.az_bin_deg) + 1])

\* np.sum((p_vec - one_hot) ** 2), one_hot[rate_i] = 1
BrierScore(p_vec, rate_i) ==
  FSum([j \in 1..Len(p_vec) |->
          LET diff == FSub(p_vec[j], IF j = rate_i + 1 THEN One ELSE Zero)
          IN  FMul(diff, diff)])

\* np.mean of a list of floats; of the empty list it is NaN
Mean(v) == IF v = <<>> THEN NaN ELSE FloatDivide(FSum(v), FromInt(Len(v)))

\* np.mean of the list of np.log(p + 1e-12): finite for numbers p >= 0
LogMean(ps) ==
  IF ps = <<>> \/ \E k \in 1..Len(ps) : ps[k].tag = "nan" THEN NaN
  ELSE IF \E k \in 1..Len(ps) : ps[k].tag # "num" THEN Garbage
  ELSE Finite

\* scipy jensenshannon(p, q): both normalised, then the square root of half
\* the sum of the relative entropies to their midpoint; 0 exactly when the
\* normalised vectors are equal
JensenShannon(p, q) ==
  LET pn == Normalised(p)
      qn == Normalised(q)
  IN  IF \E j \in 1..Len(pn) : pn[j].tag # "num" \/ qn[j].tag # "num" THEN NaN
      ELSE IF pn = qn THEN Zero
      ELSE Positive

\* demo/evaluate_bcr.py evaluate_segment; seg is the sequence of rows
EvaluateSegmentOf(seg, l) ==
  LET edges == l.params.rate_edges
      n_rate == Len(edges) - 1
      InBins(o) == /\ EvalRateIndex(o.bearing_rate, edges) >= 0
                   /\ EvalRateIndex(o.bearing_rate, edges) < n_rate
      scored == SelectSeq(seg, InBins)
      rate_i == Array([k \in 1..Len(scored) |->
                         EvalRateIndex(scored[k].bearing_rate, edges)])
      p_vecs == Array([k \in 1..Len(scored) |-> PVec(scored[k].bearing, l)])
      counts_true == Array([j \in 1..n_rate |->
                              Cardinality({k \in 1..Len(scored) : rate_i[k] = j - 1})])
      sum_pred == Array([j \in 1..n_rate |->
                           FSum([k \in 1..Len(scored) |-> p_vecs[k][j]])])
      log_args == [k \in 1..Len(scored) |-> p_vecs[k][rate_i[k] + 1]]
      brier_scores == [k \in 1..Len(scored) |-> BrierScore(p_vecs[k], rate_i[k])]
      total_true == ISum(counts_true)
      q_true == Array([j \in 1..n_rate |-> TrueDivide(counts_true[j], total_true)])
      p_pred == Normalised(sum_pred)
  IN  [n |-> Len(seg),
       avg_loglik |-> LogMean(log_args),
       avg_brier |-> Mean(brier_scores),
       js_distance |-> JensenShannon(q_true, p_pred),
       bins |-> Intervals(edges),
       q_true |-> q_true,
       p_pred |-> p_pred]

\* Segments of up to MaxObs rows; a model with records in one azimuth bin.
MaxObs == 2
EvalRows == [bearing : {100}, bearing_rate : {-3, 0, 3}, dist_m : {100}]
Observations == [bearing : {-10, 100}, bearing_rate : {-3, 0, 1, 5}]

RECURSIVE Segments(_)
Segments(n) ==
  IF n = 0 THEN {<<>>}
  ELSE Segments(n - 1) \cup
       {Append(seg, o) : seg \in {x \in Segments(n - 1) : Len(x) = n - 1}, o \in Observations}

\* the body of the loop over the segments, for one segment
EvaluateSegment ==
  /\ pc = "saved"
  /\ res.fn = "none"
  /\ \E seg \in Segments(MaxObs) :
       res' = [fn |-> "evaluate_segment", seg |-> seg, out |-> EvaluateSegmentOf(seg, lut)]
  /\ UNCHANGED <<cfg, table, pc, built_by, lut, log>>
  /\ UNCHANGED clients

InitEval ==
  /\ cfg \in Configs
  /\ table \in TablesOf(EvalRows, MaxRows)
  /\ Fresh

NextEval ==
  \/ BuildLut
  \/ BuildRangeLut
  \/ EvaluateSegment

SpecEval == InitEval /\ [][NextEval]_vars

\* ------------------------------------------------------------------ callers
\* Several callers of get_range_distribution and get_bcr_distribution on one
\* loaded model.  A call is two steps, so that calls interleave: the index
\* computation into the locals of the call, then the check, the slices and
\* the return.
CallRows == [bearing : {100}, bearing_rate : {-4, 0}, dist_m : Dists]
CallThetas == {-10, 100}
CallOmegas == {-4, 0}

LocalsShared(cs, c) == cs["a"]

\* az_index and rate_index are local variables: each call reads its own
Locals(cs, c) == cs[c]

\* theta, omega -> az_index, rate_index
CallerResolves(c) ==
  /\ pc = "saved"
  /\ callers[c].at # "indexed"
  /\ \E fn \in {"get_range_distribution", "get_bcr_distribution"},
        theta \in CallThetas, omega \in CallOmegas :
       /\ fn = "get_bcr_distribution" => omega = 0
       /\ callers' = [callers EXCEPT ![c] =
            [at |-> "indexed", fn |-> fn, theta |-> theta, omega |-> omega,
             az_index |-> AzIndex(theta, lut.params.az_bin_deg),
             rate_index |-> IF fn = "get_range_distribution"
                            THEN SearchSortedRight(lut.params.rate_edges, omega) - 1
                            ELSE 0,
             out |-> NoneOut]]
  /\ UNCHANGED <<cfg, table, pc, built_by, lut, res, log, wr, prev, loaded>>
  /\ UNCHANGED others

\* az_index, rate_index -> the returned tuple
CallerReturns(c) ==
  /\ pc = "saved"
  /\ callers[c].at = "indexed"
  /\ LET my == Locals(callers, c)
     IN  callers' = [callers EXCEPT ![c] =
           [callers[c] EXCEPT
              !.at = "returned",
              !.out = IF callers[c].fn = "get_range_distribution"
                      THEN RangeSlice(lut, my.az_index, my.rate_index)
                      ELSE BcrSlice(lut, my.az_index)]]
  /\ UNCHANGED <<cfg, table, pc, built_by, lut, res, log, wr, prev, loaded>>
  /\ UNCHANGED others

InitCalls ==
  /\ cfg \in Configs
  /\ table \in TablesOf(CallRows, MaxRows)
  /\ Fresh

NextCalls ==
  \/ BuildLut
  \/ BuildRangeLut
  \/ \E c \in Callers : CallerResolves(c)
  \/ \E c \in Callers : CallerReturns(c)

SpecCalls == InitCalls /\ [][NextCalls]_vars

\* ------------------------------------------------------------------ output file
\* A first build and one update of the model at the same path, with a reader
\* that calls load_lut at any moment.  The save of a build is three steps:
\* open(out_pkl, "wb") creates or empties the file, pickle.dump writes into
\* it, leaving the with block closes it.
SwapRows == [bearing : {100}, bearing_rate : {0}, dist_m : {100}]
SwapBuilders == {"build_lut", "build_range_lut"}

\* main() of a builder up to and including open(out_pkl, "wb")
SaveOpens ==
  /\ pc \in {"start", "saved"}
  /\ wr = "closed"
  /\ prev = NoLut
  /\ \E t \in TablesOf(SwapRows, MaxRows), builder \in SwapBuilders :
       LET rate_edges == IF builder = "build_lut" THEN LutRateEdges
                         ELSE RangeLutRateEdges(cfg.rate_edges)
           h == Histogram(t, cfg, rate_edges)
       IN  /\ ~CutRaises(rate_edges)
           /\ ~h.raised
           /\ table' = t
           /\ built_by' = builder
           /\ log' = LogLoaded(t)
                      \o (IF builder = "build_range_lut"
                          THEN LogSymmetry(cfg.rate_edges) ELSE <<>>)
                      \o LogShape(cfg, rate_edges)
           /\ IF builder = "build_lut"
              THEN \E u1 \in Uninitialized, u2 \in Uninitialized :
                     lut' = LutModel(cfg, h.counts, u1, u2)
              ELSE lut' = RangeLutModel(cfg, rate_edges, h.counts)
  /\ prev' = lut
  /\ pc' = "saving"
  /\ wr' = "opened"
  /\ UNCHANGED <<cfg, res, callers, loaded>>
  /\ UNCHANGED others

\* pickle.dump has written a part of the pickle
SaveDumps ==
  /\ wr = "opened"
  /\ wr' = "dumping"
  /\ UNCHANGED <<cfg, table, pc, built_by, lut, res, log, callers, prev, loaded>>
  /\ UNCHANGED others

\* the rest is written and the file closed
SaveCloses ==
  /\ wr = "dumping"
  /\ wr' = "closed"
  /\ pc' = "saved"
  /\ UNCHANGED <<cfg, table, built_by, lut, res, log, callers, prev, loaded>>
  /\ UNCHANGED others

\* What open(path, "rb") and pickle.load find at the path: no file before the
\* first build, an empty file after open(out_pkl, "wb"), a cut-off pickle
\* during the dump, the pickled dict once the file is closed.
ReadFile ==
  IF pc = "start" THEN [kind |-> "FileNotFoundError", lut |-> NoLut]
  ELSE IF wr = "opened" THEN [kind |-> "EOFError", lut |-> NoLut]
  ELSE IF wr = "dumping" THEN [kind |-> "UnpicklingError", lut |-> NoLut]
  ELSE [kind |-> "model", lut |-> lut]

\* demo/get_range.py load_lut, called once by a reader
LoadLut ==
  /\ loaded.kind = "none"
  /\ loaded' = [kind |-> ReadFile.kind, lut |-> ReadFile.lut,
                wr |-> wr, old |-> prev, new |-> lut]
  /\ UNCHANGED <<cfg, table, pc, built_by, lut, res, log, callers, wr, prev>>
  /\ UNCHANGED others

InitSwap ==
  /\ cfg \in Configs
  /\ table = EmptyBag
  /\ Fresh

NextSwap ==
  \/ SaveOpens
  \/ SaveDumps
  \/ SaveCloses
  \/ LoadLut

SpecSwap == InitSwap /\ [][NextSwap]_vars

\* ------------------------------------------------------------------ builds
\* The builders alone, over tables with distances on, around and far beyond
\* r_max_m and over configurations whose r_max_m is no multiple of r_step_m
\* or whose rate edges descend or repeat or do not start with 0.
BuildDists == {0, 499, 500, 1000, 1200, 5000}
BuildRows == [bearing : {100, 350}, bearing_rate : {-5, 0}, dist_m : BuildDists]

BuildConfigs ==
  { [az_bin_deg |-> 120, r_step_m |-> 500, r_max_m |-> 1000, rate_edges |-> <<0, 2, 4>>],
    [az_bin_deg |-> 120, r_step_m |-> 500, r_max_m |-> 1200, rate_edges |-> <<0, 2, 4>>],
    [az_bin_deg |-> 120, r_step_m |-> 500, r_max_m |-> 1000, rate_edges |-> <<0, 4, 2>>],
    [az_bin_deg |-> 120, r_step_m |-> 500, r_max_m |-> 1000, rate_edges |-> <<0, 2, 2>>],
    [az_bin_deg |-> 120, r_step_m |-> 500, r_max_m |-> 1000, rate_edges |-> <<1, 2, 4>>] }

InitBuild ==
  /\ cfg \in BuildConfigs
  /\ table \in TablesOf(BuildRows, MaxRows)
  /\ Fresh

NextBuild ==
  \/ BuildLut
  \/ BuildRangeLut

SpecBuild == InitBuild /\ [][NextBuild]_vars

\* ------------------------------------------------------------------ writing caller
\* A caller that keeps the vectors a query returned and assigns to a cell of
\* one of them.  prob_cube[az_index, rate_index], counts_cube[az_index,
\* rate_index] and prob_rate_cube[az_index] are basic indexing: numpy returns a
\* view of the cube, a write into it is a write into the cube of the loaded
\* model.  counts_cube[az_index].sum(axis=1) is a new array.
AliasRows == [bearing : {100}, bearing_rate : {0, 3}, dist_m : {100, 600}]

\* the loaded model after pdf[k] = v on the returned pdf
WritePdf(l, r, k, v) ==
  IF r.fn = "get_range_distribution"
  THEN [l EXCEPT !.prob_cube[r.az_index + 1][r.rate_index + 1][k] = v]
  ELSE [l EXCEPT !.prob_rate_cube[r.az_index + 1][k] = v]

\* the loaded model after counts[k] = v on the returned counts
WriteCounts(l, r, k, v) ==
  IF r.fn = "get_range_distribution"
  THEN [l EXCEPT !.counts_cube[r.az_index + 1][r.rate_index + 1][k] = v]
  ELSE l

\* a query of get_range.py or get_bcr.py returned vectors to the caller
Returned ==
  /\ res.fn \in {"get_range_distribution", "get_bcr_distribution"}
  /\ ~res.out.isnone

\* the caller assigns another probability to a cell of the returned pdf
CallerWritesPdf ==
  /\ Returned
  /\ ~held.wrote
  /\ \E k \in 1..Len(res.out.pdf) : \E v \in {Zero, One} \ {res.out.pdf[k]} :
       /\ held' = [wrote |-> TRUE, what |-> "pdf", k |-> k, model |-> lut]
       /\ lut' = WritePdf(lut, res, k, v)
  /\ UNCHANGED <<cfg, table, pc, built_by, res, log, callers, wr, prev, loaded, mw, shell>>

\* the caller adds one to a cell of the returned counts
CallerWritesCounts ==
  /\ Returned
  /\ ~held.wrote
  /\ \E k \in 1..Len(res.out.counts) :
       /\ held' = [wrote |-> TRUE, what |-> "counts", k |-> k, model |-> lut]
       /\ lut' = WriteCounts(lut, res, k, res.out.counts[k] + 1)
  /\ UNCHANGED <<cfg, table, pc, built_by, res, log, callers, wr, prev, loaded, mw, shell>>

InitAlias ==
  /\ cfg \in Configs
  /\ table \in TablesOf(AliasRows, MaxRows)
  /\ Fresh

NextAlias ==
  \/ BuildLut
  \/ BuildRangeLut
  \/ QueryRange
  \/ QueryBcr
  \/ CallerWritesPdf
  \/ CallerWritesCounts

SpecAlias == InitAlias /\ [][NextAlias]_vars

\* ------------------------------------------------------------------ plotseamap/extract.py MultiWriter
\* One MultiWriter from its construction to close().  The sink is the
\* sequence of the records written to the GPKG layer, calls the sequence of
\* the features passed to add().
MaxAdds == 4
MaxBatch == 3
Features == {"f", "g"}

\* the write without self.batch.clear()
FlushKeepsBatch(w) ==
  IF w.batch = <<>> THEN w
  ELSE [w EXCEPT !.sink = w.sink \o w.batch,
                 !.written = w.written + Len(w.batch)]

\* MultiWriter._flush
Flush(w) ==
  IF w.batch = <<>> THEN w
  ELSE [w EXCEPT !.sink = w.sink \o w.batch,
                 !.written = w.written + Len(w.batch),
                 !.batch = <<>>]

\* MultiWriter.__init__ with a batch size of at least 1
WriterInit ==
  /\ mw.state = "none"
  /\ \E batch_size \in 1..MaxBatch :
       mw' = [state |-> "open", batch_size |-> batch_size, batch |-> <<>>,
              written |-> 0, sink |-> <<>>, calls |-> <<>>]
  /\ UNCHANGED <<cfg, table, pc, built_by, lut, res, log, callers, wr, prev, loaded,
                 held, shell>>

\* MultiWriter.add
WriterAdd ==
  /\ mw.state = "open"
  /\ Len(mw.calls) < MaxAdds
  /\ \E f \in Features :
       LET appended == [mw EXCEPT !.batch = Append(mw.batch, f),
                                  !.calls = Append(mw.calls, f)]
       IN  mw' = IF Len(appended.batch) >= appended.batch_size
                 THEN Flush(appended) ELSE appended
  /\ UNCHANGED <<cfg, table, pc, built_by, lut, res, log, callers, wr, prev, loaded,
                 held, shell>>

\* MultiWriter.close
WriterClose ==
  /\ mw.state = "open"
  /\ mw' = [Flush(mw) EXCEPT !.state = "closed"]
  /\ UNCHANGED <<cfg, table, pc, built_by, lut, res, log, callers, wr, prev, loaded,
                 held, shell>>

InitWriter ==
  /\ cfg \in Configs
  /\ table = EmptyBag
  /\ Fresh

NextWriter ==
  \/ WriterInit
  \/ WriterAdd
  \/ WriterClose

SpecWriter == InitWriter /\ [][NextWriter]_vars

\* ------------------------------------------------------------------ plotseamap/cli.py
\* The commands extract, convert and buffer over one config file and one
\* directory.  A file is its path, its format and, for a GeoPackage, its
\* layers.  A command that raises ends with exit code 1.
MaxRuns == 3

\* the keys of the config of test_integration.py
TestKeys ==
  {"polyfile", "osm_pbf", "extracted_geojson", "output_gpkg", "layer_name",
   "input_gpkg", "buffer_distance", "output_buffer_geojson"}

\* the keys extract_stream reads beyond them
ExtractKeys == {"bbox_pbf", "lon", "lat", "radius"}

\* the paths the config gives its keys; input_gpkg and output_gpkg are one file
PathOf ==
  [polyfile |-> "poly.geojson", osm_pbf |-> "dummy.osm.pbf", bbox_pbf |-> "bbox.pbf",
   extracted_geojson |-> "extracted.geojson", output_gpkg |-> "data.gpkg",
   input_gpkg |-> "data.gpkg", output_buffer_geojson |-> "buffer.geojson"]

File(path, format, layers) == [path |-> path, format |-> format, layers |-> layers]

\* the files prepare_test_environment writes: the polygon and a JSON text
\* under the name of a PBF
InputFiles ==
  {File("poly.geojson", "geojson", {}), File("dummy.osm.pbf", "json", {})}

\* files that may be there from earlier runs of the pipeline
EarlierFiles ==
  {File("bbox.pbf", "pbf", {}), File("extracted.geojson", "geojson", {})}

\* DEFAULT_LAYERS of extract.py
DEFAULT_LAYERS == {"points", "lines", "multilinestrings", "multipolygons", "other_relations"}

Exists(files, path) == \E f \in files : f.path = path
Remove(files, path) == {f \in files : f.path # path}
WriteFile(files, f) == Remove(files, f.path) \cup {f}

\* extract.py extract_stream: the exit code and the files afterwards
ExtractStream(keys, files) ==
  IF ~({"bbox_pbf", "output_gpkg", "lon", "lat", "radius"} \subseteq keys)
  THEN [code |-> 1, files |-> files]
  ELSE LET removed == Remove(files, PathOf.output_gpkg)
       IN  IF File(PathOf.bbox_pbf, "pbf", {}) \notin files
           THEN [code |-> 1, files |-> removed]
           ELSE [code |-> 0,
                 files |-> WriteFile(removed, File(PathOf.output_gpkg, "gpkg", DEFAULT_LAYERS))]

\* convert.py convert_to_gpkg; layer_name is "osm", also by default
ConvertToGpkg(keys, files) ==
  IF ~({"extracted_geojson", "output_gpkg"} \subseteq keys)
  THEN [code |-> 1, files |-> files]
  ELSE IF File(PathOf.extracted_geojson, "geojson", {}) \notin files
  THEN [code |-> 1, files |-> files]
  ELSE [code |-> 0,
        files |-> WriteFile(files, File(PathOf.output_gpkg, "gpkg", {"osm"}))]

\* buffer.py buffer_layer
BufferLayer(keys, files) ==
  IF ~({"input_gpkg", "buffer_distance", "output_buffer_geojson"} \subseteq keys)
  THEN [code |-> 1, files |-> files]
  ELSE IF ~\E f \in files :
             f.path = PathOf.input_gpkg /\ f.format = "gpkg" /\ "osm" \in f.layers
  THEN [code |-> 1, files |-> files]
  ELSE [code |-> 0,
        files |-> WriteFile(files, File(PathOf.output_buffer_geojson, "geojson", {}))]

\* test_integration.py prepare_test_environment: the directory and the config
\* file, here also with the keys of extract_stream and with earlier files
PrepareTestEnvironment ==
  /\ shell = NoShell
  /\ \E more \in SUBSET ExtractKeys, earlier \in SUBSET EarlierFiles :
       shell' = [keys |-> TestKeys \cup more, files |-> InputFiles \cup earlier,
                 runs |-> <<>>]
  /\ UNCHANGED <<cfg, table, pc, built_by, lut, res, log, callers, wr, prev, loaded,
                 held, mw>>

\* one command of the command line ran to its end
Ran(cmd, outcome) ==
  /\ shell.keys # {}
  /\ Len(shell.runs) < MaxRuns
  /\ shell' = [shell EXCEPT !.files = outcome.files,
                            !.runs = Append(shell.runs, [cmd |-> cmd, code |-> outcome.code])]
  /\ UNCHANGED <<cfg, table, pc, built_by, lut, res, log, callers, wr, prev, loaded,
                 held, mw>>

\* cli.py: main loads the config, then the command
CliExtract == Ran("extract", ExtractStream(shell.keys, shell.files))
CliConvert == Ran("convert", ConvertToGpkg(shell.keys, shell.files))
CliBuffer == Ran("buffer", BufferLayer(shell.keys, shell.files))

InitPipeline ==
  /\ cfg \in Configs
  /\ table = EmptyBag
  /\ Fresh

NextPipeline ==
  \/ PrepareTestEnvironment
  \/ CliExtract
  \/ CliConvert
  \/ CliBuffer

SpecPipeline == InitPipeline /\ [][NextPipeline]_vars

\* ================================================================== claims
\* What the claims say, written without the operators of the code above.

\* the azimuth bin of a bearing: (bearing mod 360) integer-divided by the width
ClaimAzBin(theta, az_bin_deg) == (theta % 360) \div az_bin_deg

\* omega lies in the half-open rate bin j (0-based): edges[j] <= omega < edges[j+1]
InRateBin(omega, edges, j) == edges[j + 1] <= omega /\ omega < edges[j + 2]

RateBins(edges) == 0..(Len(edges) - 2)

\* omega lies in [rate_edges[0], rate_edges[-1])
RateCovered(omega, edges) == edges[1] <= omega /\ omega < edges[Len(edges)]

\* the range bin of a distance: floor(distance / step), the last bin beyond r_max
ClaimRangeBin(dist, c) ==
  IF dist >= Len(RangeVec(c)) * c.r_step_m THEN Len(RangeVec(c)) - 1
  ELSE dist \div c.r_step_m

\* the number of rows of the table in cell (i, j, k), all 0-based
RowsInCell(i, j, k) ==
  SumCopies({r \in BagToSet(table) :
               /\ ClaimAzBin(r.bearing, cfg.az_bin_deg) = i
               /\ InRateBin(r.bearing_rate, lut.params.rate_edges, j)
               /\ ClaimRangeBin(r.dist_m, cfg) = k}, table)

\* the rows of the table are observation records: bearing in [0, 360), distance >= 0
RecordsInDomain ==
  \A r \in BagToSet(table) : 0 <= r.bearing /\ r.bearing < 360 /\ r.dist_m >= 0

\* a probability: a number in [0, 1], not NaN, Inf or anything else
IsProb(x) == x.tag = "num" /\ 0 <= x.n /\ x.n <= x.d

\* x = c / s for counts c and s > 0
IsRatio(x, c, s) == x.tag = "num" /\ x.n * s = c * x.d

AllZero(v) == \A k \in 1..Len(v) : v[k] = Zero

\* the unit vector of length n with its 1 at 0-based position k
UnitVec(n, k) == [m \in 1..n |-> IF m = k + 1 THEN One ELSE Zero]

Saved(builder) == pc = "saved" /\ built_by = builder

\* C1: in every model written by build_lut.py each row prob_cube[i,j,:] sums
\* to 1 when counts[i,j,:] has an observation and is all 0 otherwise, each row
\* prob_rate_cube[i,:] sums to 1 when azimuth bin i has an observation and is
\* all 0 otherwise, and every cell is a number in [0,1].
C1_LutRowsNormalised ==
  Saved("build_lut") =>
    /\ \A i \in 1..Len(lut.prob_cube) : \A j \in 1..Len(lut.prob_cube[i]) :
         /\ \A k \in 1..Len(lut.prob_cube[i][j]) : IsProb(lut.prob_cube[i][j][k])
         /\ IF ISum(lut.counts_cube[i][j]) > 0
            THEN FSum(lut.prob_cube[i][j]) = One
            ELSE AllZero(lut.prob_cube[i][j])
    /\ \A i \in 1..Len(lut.prob_rate_cube) :
         /\ \A j \in 1..Len(lut.prob_rate_cube[i]) : IsProb(lut.prob_rate_cube[i][j])
         /\ IF \E j \in 1..Len(lut.counts_cube[i]) : ISum(lut.counts_cube[i][j]) > 0
            THEN FSum(lut.prob_rate_cube[i]) = One
            ELSE AllZero(lut.prob_rate_cube[i])

\* C2: in every model written by build_range_lut.py prob_cube[i,j,k] is
\* counts[i,j,k] / sum(counts[i,j,:]) when that sum is positive and 0 when it
\* is zero, prob_rate_cube[i,j] is the range-summed count of (i,j) over the
\* total of azimuth bin i when that total is positive and 0 when it is zero;
\* so every row sums to 0 or 1 and no cell is NaN or Inf.
C2_RangeLutNormalised ==
  Saved("build_range_lut") =>
    /\ \A i \in 1..Len(lut.prob_cube) : \A j \in 1..Len(lut.prob_cube[i]) :
         LET s == ISum(lut.counts_cube[i][j])
         IN  /\ \A k \in 1..Len(lut.prob_cube[i][j]) :
                  IF s > 0
                  THEN IsRatio(lut.prob_cube[i][j][k], lut.counts_cube[i][j][k], s)
                  ELSE lut.prob_cube[i][j][k] = Zero
             /\ FSum(lut.prob_cube[i][j]) \in {Zero, One}
    /\ \A i \in 1..Len(lut.prob_rate_cube) :
         LET total == ISum([j \in 1..Len(lut.counts_cube[i]) |-> ISum(lut.counts_cube[i][j])])
         IN  /\ \A j \in 1..Len(lut.prob_rate_cube[i]) :
                  IF total > 0
                  THEN IsRatio(lut.prob_rate_cube[i][j], ISum(lut.counts_cube[i][j]), total)
                  ELSE lut.prob_rate_cube[i][j] = Zero
             /\ FSum(lut.prob_rate_cube[i]) \in {Zero, One}

\* C2 happens: a model of build_range_lut.py with a row split over two range
\* bins, an empty (theta, omega) row and an azimuth bin without any record
C2_Witness ==
  /\ Saved("build_range_lut")
  /\ \E i \in 1..Len(lut.prob_cube) : \E j \in 1..Len(lut.prob_cube[i]) :
       /\ lut.counts_cube[i][j] = <<1, 1>>
       /\ \E j2 \in 1..Len(lut.prob_cube[i]) : ISum(lut.counts_cube[i][j2]) = 0
  /\ \E i \in 1..Len(lut.counts_cube) :
       \A j \in 1..Len(lut.counts_cube[i]) : ISum(lut.counts_cube[i][j]) = 0

\* C3: after a build over a table whose records have bearing in [0,360), rate
\* inside the rate edges and distance >= 0, counts[i,j,k] is exactly the number
\* of input records in azimuth bin i, rate bin j and range bin k; equal
\* records each add one.
C3_CountsExact ==
  ( /\ pc = "saved"
    /\ RecordsInDomain
    /\ \A r \in BagToSet(table) : RateCovered(r.bearing_rate, lut.params.rate_edges) )
  => \A i \in 1..Len(lut.counts_cube) :
       \A j \in 1..Len(lut.counts_cube[i]) :
         \A k \in 1..Len(lut.counts_cube[i][j]) :
           lut.counts_cube[i][j][k] = RowsInCell(i - 1, j - 1, k - 1)

\* C3 happens: a finished build of such a table holding the same record twice
\* (a cell counts 2)
C3_Witness ==
  /\ pc = "saved"
  /\ RecordsInDomain
  /\ \A r \in BagToSet(table) : RateCovered(r.bearing_rate, lut.params.rate_edges)
  /\ \E r \in BagToSet(table) : CopiesIn(r, table) = 2
  /\ \E i \in 1..Len(lut.counts_cube) : \E j \in 1..Len(lut.counts_cube[i]) :
       \E k \in 1..Len(lut.counts_cube[i][j]) : lut.counts_cube[i][j][k] = 2

\* the sum of all cells of the count cube
TotalCount == ISum([i \in 1..Len(lut.counts_cube) |->
                ISum([j \in 1..Len(lut.counts_cube[i]) |-> ISum(lut.counts_cube[i][j])])])

\* the number of rows whose rate lies in [edges[0], edges[-1])
RowsCovered(edges) ==
  SumCopies({r \in BagToSet(table) : RateCovered(r.bearing_rate, edges)}, table)

BuilderEdges ==
  IF built_by = "build_lut" THEN LutRateEdges ELSE RangeLutRateEdges(cfg.rate_edges)

\* C4: a build over observation records (bearing in [0,360), distance >= 0)
\* drops every record whose rate lies outside [rate_edges[0], rate_edges[-1]):
\* the build is not aborted and the sum of all cells of the count cube is the
\* number of records whose rate lies inside that interval.
C4_OutOfRangeRateDropped ==
  (pc # "start" /\ RecordsInDomain) =>
    /\ pc = "saved"
    /\ TotalCount = RowsCovered(BuilderEdges)

\* C4 happens: a finished build whose table held a record below the first
\* edge or on the last edge next to a covered one
C4_Witness ==
  /\ pc = "saved"
  /\ RecordsInDomain
  /\ \E r \in BagToSet(table) : ~RateCovered(r.bearing_rate, BuilderEdges)
  /\ \E r \in BagToSet(table) : RateCovered(r.bearing_rate, BuilderEdges)
  /\ TotalCount = 1

\* the (theta, omega) of the last query resolves to a cell with observations
Backed(theta, omega) ==
  LET i == ClaimAzBin(theta, lut.params.az_bin_deg)
      edges == lut.params.rate_edges
  IN  /\ i < Len(lut.counts_cube)
      /\ \E j \in RateBins(edges) :
           /\ InRateBin(omega, edges, j)
           /\ ISum(lut.counts_cube[i + 1][j + 1]) > 0

\* C5: get_range_distribution returns (None, None, None) whenever theta's
\* azimuth bin or omega's rate bin is out of range or counts_cube[i,j,:] sums
\* to zero, and otherwise three vectors of length n_r whose pdf sums to 1.
C5_NoDataIffUnbacked ==
  res.fn = "get_range_distribution" =>
    /\ res.out.isnone <=> ~Backed(res.theta, res.omega)
    /\ ~res.out.isnone =>
         /\ Len(res.out.range_vec) = Len(lut.params.range_vec)
         /\ Len(res.out.pdf) = Len(lut.params.range_vec)
         /\ Len(res.out.counts) = Len(lut.params.range_vec)
         /\ FSum(res.out.pdf) = One

\* the total count of the azimuth bin of theta
AzTotal(theta) ==
  LET row == lut.counts_cube[ClaimAzBin(theta, lut.params.az_bin_deg) + 1]
  IN  ISum([j \in 1..Len(row) |-> ISum(row[j])])

\* C6: get_bcr_distribution returns no probabilities (None) whenever theta's
\* azimuth bin has no observation in any rate and range bin.
C6_BcrNoDataWhenEmpty ==
  res.fn \in {"get_bcr_distribution", "lookup_bcr"} =>
    (AzTotal(res.theta) = 0 => res.out.isnone)

\* every row of the table has bearing theta0, a rate in rate bin j and a
\* distance in range bin k
AllRowsIn(theta0, j, k) ==
  /\ table # EmptyBag
  /\ \A r \in BagToSet(table) :
       /\ r.bearing = theta0
       /\ InRateBin(r.bearing_rate, lut.params.rate_edges, j)
       /\ ClaimRangeBin(r.dist_m, cfg) = k

SameRateBin(omega1, omega2) ==
  \E j \in RateBins(lut.params.rate_edges) :
    /\ InRateBin(omega1, lut.params.rate_edges, j)
    /\ InRateBin(omega2, lut.params.rate_edges, j)

SameAzBin(theta1, theta2) ==
  ClaimAzBin(theta1, lut.params.az_bin_deg) = ClaimAzBin(theta2, lut.params.az_bin_deg)

StrictlyIncreasing(edges) == \A a \in 1..(Len(edges) - 1) : edges[a] < edges[a + 1]

C10_BuilderWrapsBearing ==
  pc # "start" =>
    /\ pc = "saved"
    /\ \A i \in 1..Len(lut.counts_cube) :
         \A j \in 1..Len(lut.counts_cube[i]) :
           \A k \in 1..Len(lut.counts_cube[i][j]) :
             lut.counts_cube[i][j][k] = RowsInCell(i - 1, j - 1, k - 1)

ClampedRangeBin(dist, c) ==
  IF dist < c.r_max_m THEN dist \div c.r_step_m ELSE Len(RangeVec(c)) - 1

\* the sum of range bin k (0-based) of the count cube over all (theta, omega)
RangeBinTotal(k) ==
  ISum([i \in 1..Len(lut.counts_cube) |->
    ISum([j \in 1..Len(lut.counts_cube[i]) |-> lut.counts_cube[i][j][k + 1]])])

\* the edges do not descend and do not repeat
WellFormedEdges(edges) == \A i \in 1..(Len(edges) - 1) : edges[i] < edges[i + 1]

\* C12: a build counts every record with 0 <= dist < r_max in range bin
\* floor(dist / r_step) and every record with dist >= r_max in the last bin
\* n_r - 1 (rate inside the edges); no distance >= 0 gives a bin index
\* outside [0, n_r), so no such record aborts the build.
C12_RangeBinClamped ==
  /\ \A r \in BagToSet(table) :
       r.dist_m >= 0 => ClampedRangeBin(r.dist_m, cfg) \in 0..(Len(RangeVec(cfg)) - 1)
  /\ (pc # "start" /\ RecordsInDomain /\ WellFormedEdges(BuilderEdges)) => pc = "saved"
  /\ (pc = "saved" /\ RecordsInDomain) =>
       \A k \in 0..(Len(lut.params.range_vec) - 1) :
         RangeBinTotal(k) =
           SumCopies({r \in BagToSet(table) :
                        /\ RateCovered(r.bearing_rate, lut.params.rate_edges)
                        /\ ClampedRangeBin(r.dist_m, cfg) = k}, table)

\* C12 happens: a finished build whose last range bin holds a record from
\* inside the bin and a record from beyond r_max, r_max no multiple of r_step
C12_Witness ==
  /\ pc = "saved"
  /\ cfg.r_max_m % cfg.r_step_m # 0
  /\ \E r1, r2 \in BagToSet(table) :
       /\ r1.dist_m < cfg.r_max_m /\ r1.dist_m \div cfg.r_step_m = Len(RangeVec(cfg)) - 1
       /\ r2.dist_m >= 4 * cfg.r_max_m
       /\ r1.bearing_rate = 0 /\ r2.bearing_rate = 0
  /\ RangeBinTotal(Len(lut.params.range_vec) - 1) = NumRows(table)
  /\ NumRows(table) > 1

\* C13: a build_range_lut.py build whose rate edges descend or repeat is
\* aborted with an error and writes no model file.
C13_MalformedEdgesAbort ==
  ( /\ built_by = "build_range_lut"
    /\ ~WellFormedEdges(RangeLutRateEdges(cfg.rate_edges)) )
  => /\ pc = "aborted"
     /\ lut = NoLut
     /\ wr = "closed"

\* C13 happens: a build over a non-empty table and repeated edges was aborted
C13_Witness ==
  /\ built_by = "build_range_lut"
  /\ pc = "aborted"
  /\ NumRows(table) > 0
  /\ \E i \in 1..(Len(cfg.rate_edges) - 1) : cfg.rate_edges[i] = cfg.rate_edges[i + 1]

\* C13 also happens for edges that descend
C13_WitnessDescending ==
  /\ built_by = "build_range_lut"
  /\ pc = "aborted"
  /\ \E i \in 1..(Len(cfg.rate_edges) - 1) : cfg.rate_edges[i] > cfg.rate_edges[i + 1]

\* the records of the table the build left out of the count cube
RowsDropped == NumRows(table) - TotalCount

\* C14: a finished build that dropped records whose rate lies outside the rate
\* edges reported the number of records it dropped.
C14_DroppedRowsReported ==
  (pc = "saved" /\ RecordsInDomain /\ RowsDropped > 0) =>
    \E n \in 1..Len(log) : log[n].msg = "rows_dropped" /\ log[n].value = RowsDropped

\* what a call returns when it is the only call on the model
Alone(call, l) ==
  IF call.fn = "get_range_distribution"
  THEN GetRangeDistribution(call.theta, call.omega, l)
  ELSE GetBcrDistribution(call.theta, l)

\* C15: no step of a get_range_distribution or get_bcr_distribution call
\* changes params, counts_cube, prob_cube or prob_rate_cube, and whatever
\* the other callers do in between, a call returns what it returns alone:
\* a function of its arguments and the model only.
C15_QueriesPure ==
  [][ /\ pc = "saved" => lut' = lut
      /\ \A c \in Callers :
           callers'[c].at = "returned" =>
             callers'[c].out = Alone(callers'[c], lut') ]_vars

\* C15 happens: one caller got a distribution back while the other was
\* inside a call for another azimuth bin
C15_Witness ==
  /\ callers["b"].at = "returned"
  /\ ~callers["b"].out.isnone
  /\ callers["a"].at = "indexed"
  /\ callers["a"].az_index # callers["b"].az_index

\* C16: a reader that calls load_lut while a build writes a new model to the
\* path of an existing one gets the complete previous model or the complete
\* new one, never a missing, empty or cut-off file.
C16_AtomicSwap ==
  (loaded.kind # "none" /\ loaded.wr # "closed" /\ loaded.old # NoLut) =>
    /\ loaded.kind = "model"
    /\ loaded.lut \in {loaded.old, loaded.new}

\* the pdf of the cell the lookup command resolved
LookedUpCell == lut.prob_cube[res.az_index + 1][res.rate_index + 1]

LookedUp ==
  /\ res.fn = "lookup_range"
  /\ res.rate_index >= 0
  /\ res.rate_index < Len(lut.prob_cube[1])

\* C17: the lookup command computes no expectation, quantile or top-k from a
\* pdf that sums to zero: it signals an error and gives no summary values.
C17_NoSummaryOfEmptyPdf ==
  /\ (LookedUp /\ IsZero(FSum(LookedUpCell))) =>
       res.out.error /\ res.out.summary = <<>>
  /\ (res.fn = "lookup_range" /\ res.out.summary # <<>>) =>
       /\ res.out.pdf = LookedUpCell
       /\ ~IsZero(FSum(res.out.pdf))

\* C17 happens: the command looked up a row without any record in a model
\* that has records, and ended with the error
C17_Witness ==
  /\ LookedUp
  /\ NumRows(table) > 0
  /\ IsZero(FSum(LookedUpCell))
  /\ res.out.error

\* quantile levels, 0.1, 0.5 and 0.9 among them
Levels == {Frac(1, 10), Frac(1, 3), Frac(1, 2), Frac(9, 10)}

Summarised == res.fn = "lookup_range" /\ ~res.out.error

\* C18: for a pdf that sums to 1 over strictly increasing range centers the
\* quantile np.interp(q, pdf.cumsum(), range_vec) is nondecreasing in q, so
\* q(0.1) <= q(0.5) <= q(0.9), also with zero-mass bins (repeated cumulative
\* values).
C18_QuantileMonotone ==
  ( /\ Summarised
    /\ FSum(res.out.pdf) = One
    /\ \A k \in 1..(Len(res.out.range_vec) - 1) :
         res.out.range_vec[k] < res.out.range_vec[k + 1] )
  => /\ \A q1, q2 \in Levels :
          FLess(q1, q2) => FLeq(Quantile(q1, res.out.pdf, res.out.range_vec),
                                Quantile(q2, res.out.pdf, res.out.range_vec))
     /\ FLeq(res.out.summary[1].q10, Quantile(Frac(1, 2), res.out.pdf, res.out.range_vec))
     /\ FLeq(Quantile(Frac(1, 2), res.out.pdf, res.out.range_vec), res.out.summary[1].q90)

\* C18 happens: quantiles of a pdf with a zero-mass bin between two bins with
\* mass, the 10% quantile strictly below the 90% quantile
C18_Witness ==
  /\ Summarised
  /\ FSum(res.out.pdf) = One
  /\ \E k \in 2..(Len(res.out.pdf) - 1) :
       /\ IsZero(res.out.pdf[k])
       /\ ~IsZero(res.out.pdf[k - 1])
       /\ ~IsZero(res.out.pdf[k + 1])
  /\ FLess(res.out.summary[1].q10, res.out.summary[1].q90)

\* the number of bins that come before bin i (0-based) when the bins are
\* listed by descending mass and, among equal masses, by ascending center
BinsBefore(i, pdf) ==
  Cardinality({m \in 0..(Len(pdf) - 1) :
                 \/ FLess(pdf[i + 1], pdf[m + 1])
                 \/ pdf[m + 1] = pdf[i + 1] /\ m < i})

\* the k first bins of that listing
TopInSupportOrder(pdf, k) ==
  [n \in 1..(IF Len(pdf) < k THEN Len(pdf) ELSE k) |->
     CHOOSE i \in 0..(Len(pdf) - 1) : BinsBefore(i, pdf) = n - 1]

\* C19: the top-k of the lookup command are the k bins with the largest mass
\* in descending order of mass, bins of equal mass chosen and listed in
\* support order (smaller range center first).
C19_TopKSupportOrder ==
  Summarised => res.out.summary[1].top5 = TopInSupportOrder(res.out.pdf, TopK)

\* the rate bin (0-based) that holds omega: rate_edges[j] <= omega < rate_edges[j+1]
TrueRateBin(omega, edges) == CHOOSE j \in RateBins(edges) : InRateBin(omega, edges, j)

\* the rows of the evaluated segment that were scored (not skipped)
ScoredRows ==
  SelectSeq(res.seg, LAMBDA o :
    /\ EvalRateIndex(o.bearing_rate, lut.params.rate_edges) >= 0
    /\ EvalRateIndex(o.bearing_rate, lut.params.rate_edges) < Len(lut.params.rate_edges) - 1)

\* the predicted vector P(omega | theta) of a row
Predicted(o) == lut.prob_rate_cube[ClaimAzBin(o.bearing, lut.params.az_bin_deg) + 1]

\* a segment with a scored row, every scored row with a rate bin and with a
\* predicted vector that is a distribution
ProperSegment ==
  /\ res.fn = "evaluate_segment"
  /\ ScoredRows # <<>>
  /\ \A k \in 1..Len(ScoredRows) :
       /\ RateCovered(ScoredRows[k].bearing_rate, lut.params.rate_edges)
       /\ \A j \in 1..Len(Predicted(ScoredRows[k])) : IsProb(Predicted(ScoredRows[k])[j])
       /\ FSum(Predicted(ScoredRows[k])) = One

\* the share of the scored rows whose rate lies in bin j (0-based)
Occupancy(j) ==
  Frac(Cardinality({k \in 1..Len(ScoredRows) :
         TrueRateBin(ScoredRows[k].bearing_rate, lut.params.rate_edges) = j}),
       Len(ScoredRows))

\* the average over the scored rows of the predicted probability of bin j
AveragePredicted(j) ==
  Mean([k \in 1..Len(ScoredRows) |-> Predicted(ScoredRows[k])[j + 1]])

\* sum over the bins of (predicted - one-hot of the true bin) squared
SquaredResidual(o) ==
  FSum([j \in 1..Len(Predicted(o)) |->
          LET hot == IF TrueRateBin(o.bearing_rate, lut.params.rate_edges) = j - 1
                     THEN One ELSE Zero
          IN  FMul(FSub(Predicted(o)[j], hot), FSub(Predicted(o)[j], hot))])

\* C20: for a segment whose occupancy of the true rate bins equals the
\* average of the predicted vectors js_distance is 0, and avg_brier is the
\* mean over the scored rows of the sum over the bins of
\* (predicted - one-hot of the true bin) squared.
C20_JsAndBrier ==
  ProperSegment =>
    /\ (\A j \in RateBins(lut.params.rate_edges) : Occupancy(j) = AveragePredicted(j))
         => res.out.js_distance = Zero
    /\ res.out.avg_brier = Mean([k \in 1..Len(ScoredRows) |-> SquaredResidual(ScoredRows[k])])

\* every row of the evaluated segment has a rate inside the rate edges
SegmentCovered ==
  /\ res.fn = "evaluate_segment"
  /\ res.seg # <<>>
  /\ \A k \in 1..Len(res.seg) : RateCovered(res.seg[k].bearing_rate, lut.params.rate_edges)

\* the share of the rows of the segment whose rate lies in bin j (0-based)
SegmentOccupancy(j) ==
  Frac(Cardinality({k \in 1..Len(res.seg) :
         TrueRateBin(res.seg[k].bearing_rate, lut.params.rate_edges) = j}),
       Len(res.seg))

\* C21: the rate bin evaluate_segment scores as the true bin of an observation
\* is the bin j with rate_edges[j] <= omega < rate_edges[j+1], for negative as
\* for positive omega: over a segment of rates inside the edges q_true is the
\* share of the rows in each such bin.
C21_TrueBinSigned ==
  SegmentCovered =>
    \A j \in RateBins(lut.params.rate_edges) : res.out.q_true[j + 1] = SegmentOccupancy(j)

\* a float that is a number: not NaN, not Inf, not an uninitialised cell
IsFiniteFloat(x) == x.tag \in {"num", "finite", "positive"}

\* C26: for every segment with at least one scored observation avg_loglik,
\* avg_brier and js_distance are finite numbers, also when a row of
\* prob_rate_cube is all zero or the probability of the true bin is 0.
C26_ScoresFinite ==
  (res.fn = "evaluate_segment" /\ ScoredRows # <<>>) =>
    /\ IsFiniteFloat(res.out.avg_loglik)
    /\ IsFiniteFloat(res.out.avg_brier)
    /\ IsFiniteFloat(res.out.js_distance)

\* C27: n of the score record is the number of observations that were scored
\* (the sum of counts_true); skipped observations are not counted.
C27_CountsScoredOnly ==
  res.fn = "evaluate_segment" => res.out.n = Len(ScoredRows)

\* the counts of the cell of (theta, omega) as the builder bins them: the
\* azimuth bin of theta mod 360 and the half-open rate bin of the signed omega
BuilderCell(theta, omega) ==
  lut.counts_cube[ClaimAzBin(theta, lut.params.az_bin_deg) + 1]
                 [TrueRateBin(omega, lut.params.rate_edges) + 1]

BuilderCellPdf(theta, omega) ==
  lut.prob_cube[ClaimAzBin(theta, lut.params.az_bin_deg) + 1]
               [TrueRateBin(omega, lut.params.rate_edges) + 1]

\* rates around zero and across a bin edge
NearbyOmegas == {-3, -1, 0, 1, 3}

\* C25: lookup_range_pdf(theta, omega, lut) returns the pdf of the cell in
\* which the builder counted the records with (theta, omega), for every omega
\* in [rate_edges[0], rate_edges[-1]), negative ones included, and (None, None)
\* when that cell has no record or omega is outside the edges; two rates in
\* the same rate bin give the same result.
C25_LookupMatchesBuilder ==
  /\ res.fn = "lookup_range" =>
       IF RateCovered(res.omega, lut.params.rate_edges)
          /\ ISum(BuilderCell(res.theta, res.omega)) > 0
       THEN ~res.out.error /\ res.out.pdf = BuilderCellPdf(res.theta, res.omega)
       ELSE res.out.error
  /\ pc = "saved" =>
       \A theta \in CliThetas : \A omega1, omega2 \in NearbyOmegas :
         SameRateBin(omega1, omega2) =>
           LookupRangePdf(theta, omega1, lut) = LookupRangePdf(theta, omega2, lut)

\* the smallest n with n * b >= a, for a >= 0 and b > 0
CeilDiv(a, b) == CHOOSE n \in 0..(a \div b + 1) : (n - 1) * b < a /\ a <= n * b

\* a matrix of n1 rows of n2 cells
HasShape2(m, n1, n2) == Len(m) = n1 /\ \A i \in 1..n1 : Len(m[i]) = n2

\* a cube of n1 x n2 x n3 cells
HasShape3(m, n1, n2, n3) ==
  Len(m) = n1 /\ \A i \in 1..n1 : HasShape2(m[i], n2, n3)

\* every row of the table has its rate inside the edges
RatesCovered(edges) ==
  \A r \in BagToSet(table) : RateCovered(r.bearing_rate, edges)

\* C22: every persisted model has counts_cube and prob_cube of shape
\* (n_az, n_rate, n_r) and prob_rate_cube of shape (n_az, n_rate), with
\* n_az = 360 / az_bin_deg, n_rate = len(rate_edges) - 1 and
\* n_r = ceil(r_max / r_step) = len(range_vec), range_vec[k] = k * r_step +
\* r_step / 2; every record with bearing in [0, 360), rate inside the edges and
\* distance >= 0 maps to an index inside these shapes: such a table aborts no
\* build and every record of it is counted.
C22_CubeShapes ==
  /\ pc = "saved" =>
       LET n_az == 360 \div cfg.az_bin_deg
           n_rate == Len(lut.params.rate_edges) - 1
           n_r == CeilDiv(cfg.r_max_m, cfg.r_step_m)
       IN  /\ n_az * cfg.az_bin_deg = 360
           /\ HasShape3(lut.counts_cube, n_az, n_rate, n_r)
           /\ HasShape3(lut.prob_cube, n_az, n_rate, n_r)
           /\ HasShape2(lut.prob_rate_cube, n_az, n_rate)
           /\ Len(lut.params.range_vec) = n_r
           /\ \A k \in 0..(n_r - 1) :
                2 * lut.params.range_vec[k + 1] = 2 * k * cfg.r_step_m + cfg.r_step_m
           /\ \A r \in BagToSet(table) :
                (0 <= r.bearing /\ r.bearing < 360 /\ r.dist_m >= 0
                 /\ RateCovered(r.bearing_rate, lut.params.rate_edges)) =>
                  /\ ClaimAzBin(r.bearing, cfg.az_bin_deg) \in 0..(n_az - 1)
                  /\ TrueRateBin(r.bearing_rate, lut.params.rate_edges) \in 0..(n_rate - 1)
                  /\ ClaimRangeBin(r.dist_m, cfg) \in 0..(n_r - 1)
                  /\ lut.counts_cube[ClaimAzBin(r.bearing, cfg.az_bin_deg) + 1]
                                    [TrueRateBin(r.bearing_rate, lut.params.rate_edges) + 1]
                                    [ClaimRangeBin(r.dist_m, cfg) + 1] >= 1
  /\ (pc # "start" /\ WellFormedEdges(BuilderEdges) /\ RecordsInDomain
      /\ RatesCovered(BuilderEdges)) =>
       pc = "saved" /\ TotalCount = NumRows(table)

\* C22 happens: a persisted model with r_max no multiple of r_step whose last
\* azimuth bin and last range bin hold a record from far beyond r_max
C22_Witness ==
  /\ pc = "saved"
  /\ cfg.r_max_m % cfg.r_step_m # 0
  /\ \E r \in BagToSet(table) :
       /\ r.bearing = 350 /\ r.bearing_rate = 0 /\ r.dist_m > 4 * cfg.r_max_m
       /\ lut.counts_cube[Len(lut.counts_cube)]
                         [TrueRateBin(0, lut.params.rate_edges) + 1]
                         [Len(lut.params.range_vec)] >= 1

\* the edges are the mirror image of themselves: edges[i] = -edges[n + 1 - i]
SymmetricEdges(edges) ==
  \A i \in 1..Len(edges) : edges[i] = -edges[Len(edges) + 1 - i]

\* the rate bins and edge positions that cover zero
ZeroCovers(edges) ==
  {<<"edge", i>> : i \in {i \in 1..Len(edges) : edges[i] = 0}}
    \cup {<<"bin", j>> : j \in {j \in RateBins(edges) : edges[j + 1] < 0 /\ 0 < edges[j + 2]}}

\* C23: the rate_edges a builder produces by mirroring positive magnitudes are
\* strictly increasing without duplicates (no duplicated zero edge), symmetric
\* about zero, and exactly one bin or edge position covers zero.
C23_EdgesMirrored ==
  pc = "saved" =>
    /\ StrictlyIncreasing(lut.params.rate_edges)
    /\ SymmetricEdges(lut.params.rate_edges)
    /\ Cardinality(ZeroCovers(lut.params.rate_edges)) = 1

\* the symmetry check reported the edges as symmetric / warned
ReportedSymmetric == \E n \in 1..Len(log) : log[n].msg = "edges_symmetric"
WarnedAsymmetric == \E n \in 1..Len(log) : log[n].msg = "edges_not_symmetric"

\* the configured edges are [0, e1 .. en] with 0 < e1 < .. < en
ZeroThenMagnitudes(POS) ==
  /\ Len(POS) >= 1
  /\ POS[1] = 0
  /\ \A i \in 1..(Len(POS) - 1) : POS[i] < POS[i + 1]

\* C29: the symmetry check of build_range_lut.py reports the edges as
\* symmetric (no warning) whenever rate_edges was built by mirroring
\* [0, e1 .. en], and warns only when the negative edges are not the mirror
\* image of the positive ones.
C29_SymmetryCheck ==
  (built_by = "build_range_lut" /\ pc # "start") =>
    /\ ZeroThenMagnitudes(cfg.rate_edges) => (ReportedSymmetric /\ ~WarnedAsymmetric)
    /\ WarnedAsymmetric => ~SymmetricEdges(RangeLutRateEdges(cfg.rate_edges))

\* the query of res, asked again of the model as it is now
AskedAgain ==
  IF res.fn = "get_range_distribution"
  THEN GetRangeDistribution(res.theta, res.omega, lut)
  ELSE GetBcrDistribution(res.theta, lut)

\* C28: the vectors a query returns are independent of the loaded model: after
\* a caller modified in place the pdf or the counts that get_range_distribution
\* or get_bcr_distribution returned, the cubes of the model are unchanged and
\* the same query returns what it returned before.
C28_ReturnsIndependent ==
  held.wrote => (lut = held.model /\ AskedAgain = res.out)

\* C30: for any sequence of MultiWriter.add calls followed by close (batch
\* size at least 1) every added feature is written to the sink exactly once
\* and in the order of the calls, written is the number of add calls after
\* close, and after each add the pending batch holds fewer than batch_size
\* features.
C30_WriterDelivers ==
  /\ mw.state \in {"open", "closed"} =>
       /\ mw.sink \o mw.batch = mw.calls
       /\ mw.written = Len(mw.sink)
       /\ Len(mw.batch) < mw.batch_size
  /\ mw.state = "closed" =>
       /\ mw.sink = mw.calls
       /\ mw.written = Len(mw.calls)

\* C30 happens: a closed writer whose batch was flushed by an add and whose
\* rest was flushed by close, two different features among the calls
C30_Witness ==
  /\ mw.state = "closed"
  /\ mw.batch_size > 1
  /\ Len(mw.calls) > mw.batch_size
  /\ Len(mw.calls) % mw.batch_size # 0
  /\ \E i, j \in 1..Len(mw.calls) : mw.calls[i] # mw.calls[j]
  /\ mw.sink = mw.calls

\* the commands of the pipeline in their order and the file each one leaves
PipelineOrder == <<"extract", "convert", "buffer">>
OutputOf ==
  [extract |-> PathOf.extracted_geojson, convert |-> PathOf.output_gpkg,
   buffer |-> PathOf.output_buffer_geojson]

\* the commands ran so far are the first commands of the pipeline, in order
RanInOrder ==
  /\ shell.runs # <<>>
  /\ Len(shell.runs) <= Len(PipelineOrder)
  /\ \A n \in 1..Len(shell.runs) : shell.runs[n].cmd = PipelineOrder[n]

\* C24: running the commands extract, convert and buffer in this order with
\* one config that names polyfile, osm_pbf, extracted_geojson, output_gpkg,
\* layer_name, input_gpkg, buffer_distance and output_buffer_geojson, each
\* command exits with code 0 and its output file exists afterwards.
C24_PipelineRuns ==
  (TestKeys \subseteq shell.keys /\ RanInOrder) =>
    /\ \A n \in 1..Len(shell.runs) : shell.runs[n].code = 0
    /\ Exists(shell.files, OutputOf[shell.runs[Len(shell.runs)].cmd])

====
